---- MODULE Spec2Model ----
(***************************************************************************)
(* Model of src/app.py: the US market alert program.                       *)
(*                                                                         *)
(* The process parses its command line, then loops: fetch the three        *)
(* tickers one after the other, print the warning block and the quote      *)
(* lines, then either return 0 (--once) or time.sleep(interval) and start  *)
(* over.  An exception that the except clause of main does not name        *)
(* propagates out of main and ends the process with a traceback.           *)
(*                                                                         *)
(* Floats are modelled as exact rationals n/d (d > 0); prices and          *)
(* thresholds are drawn from small sets that hit the boundary cases.       *)
(***************************************************************************)
EXTENDS Integers, Sequences, FiniteSets, TLC

VARIABLES pc, args, cycles, idx, inflight, response, quotes, errors, out,
          requests, exitCode, exc

vars == <<pc, args, cycles, idx, inflight, response, quotes, errors, out,
          requests, exitCode, exc>>

(* ---------------------------------------------------------------------- *)
(* Bounds                                                                  *)
(* ---------------------------------------------------------------------- *)
MaxCycles == 2

(* ---------------------------------------------------------------------- *)
(* Program constants                                                       *)
(* ---------------------------------------------------------------------- *)
DEFAULT_TICKERS ==
    << [name |-> "S&P 500", symbol |-> "^GSPC"],
       [name |-> "VOO",     symbol |-> "VOO"],
       [name |-> "NVIDIA",  symbol |-> "NVDA"] >>

NumTickers == Len(DEFAULT_TICKERS)

DefaultInterval == 60

DefaultThreshold == [n |-> 1, d |-> 1]

(* ---------------------------------------------------------------------- *)
(* Exact rationals standing for Python floats                              *)
(* ---------------------------------------------------------------------- *)
Abs(x) == IF x < 0 THEN -x ELSE x

\* a / b  on floats: raises ZeroDivisionError when b = 0
TrueDiv(a, b) ==
    IF b = 0 THEN [ok |-> FALSE, n |-> 0, d |-> 1]
    ELSE IF b < 0 THEN [ok |-> TRUE, n |-> -a, d |-> -b]
    ELSE [ok |-> TRUE, n |-> a, d |-> b]

(* ---------------------------------------------------------------------- *)
(* Quote                                                                   *)
(* ---------------------------------------------------------------------- *)
NoQuote == [name |-> "", symbol |-> "", price |-> 0, prev_close |-> 0, currency |-> ""]

\* change_percent without the guard on prev_close
change_percent_unguarded(q) ==
    LET r == TrueDiv(q.price - q.prev_close, q.prev_close)
    IN  [ok |-> r.ok, n |-> r.n * 100, d |-> r.d]

\* Quote.change_percent
change_percent(q) ==
    IF q.prev_close = 0
    THEN [ok |-> TRUE, n |-> 0, d |-> 1]
    ELSE LET r == TrueDiv(q.price - q.prev_close, q.prev_close)
         IN  [ok |-> r.ok, n |-> r.n * 100, d |-> r.d]

\* should_alert with a strict comparison
should_alert_strict(q, threshold) ==
    LET cp == change_percent(q)
    IN  Abs(cp.n) * threshold.d > threshold.n * cp.d

\* should_alert: abs(quote.change_percent) >= threshold
should_alert(q, threshold) ==
    LET cp == change_percent(q)
    IN  Abs(cp.n) * threshold.d >= threshold.n * cp.d

\* format_quote: the pieces of the rendered line
format_quote(q) ==
    [msg |-> "", price |-> q.price, currency |-> q.currency,
     change |-> q.price - q.prev_close, pct |-> change_percent(q)]

(* ---------------------------------------------------------------------- *)
(* Exceptions                                                              *)
(* ---------------------------------------------------------------------- *)
\* the classes an exception class is an instance of
Superclasses(e) ==
    CASE e = "ConnectionError" -> {"ConnectionError", "RequestException"}
      [] e = "Timeout"         -> {"Timeout", "RequestException"}
      [] e = "HTTPError"       -> {"HTTPError", "RequestException"}
      [] e = "JSONDecodeError" -> {"JSONDecodeError", "RequestException", "ValueError"}
      [] e = "QuoteError"      -> {"QuoteError", "RuntimeError"}
      [] OTHER                 -> {e}

\* an except clause that leaves QuoteError out
ExceptClause_NoQuoteError == {"RequestException", "JSONDecodeError"}

\* except (requests.RequestException, QuoteError, json.JSONDecodeError)
ExceptClause == {"RequestException", "QuoteError", "JSONDecodeError"}

Caught(e) == Superclasses(e) \cap ExceptClause # {}

Raise(e, m) == [kind |-> "raise", exc |-> e, msg |-> m, quote |-> NoQuote]

Return(q) == [kind |-> "return", exc |-> "", msg |-> "", quote |-> q]

(* ---------------------------------------------------------------------- *)
(* Provider responses                                                      *)
(* ---------------------------------------------------------------------- *)
Absent == [t |-> "absent", n |-> 0, s |-> ""]
Null   == [t |-> "null",   n |-> 0, s |-> ""]
Num(k) == [t |-> "num",    n |-> k, s |-> ""]
Str(x) == [t |-> "str",    n |-> 0, s |-> x]

\* a 2xx response whose body is the JSON object
\* {"chart": {"result": [{"meta": {...}}]}}
Body(p, c, cur) ==
    [transport |-> "ok", status |-> 200, body |-> "object", chart |-> "object",
     result |-> "array", entry0 |-> "object", meta |-> "object",
     price |-> p, prev_close |-> c, currency |-> cur]

WellFormed == Body(Num(202), Num(200), Absent)

PriceValues == {Absent, Null, Str("n/a"), Num(0), Num(198), Num(200), Num(202), Num(203)}

PrevValues == {Absent, Str("n/a"), Num(0), Num(200)}

CurrencyValues == {Null, Str(""), Str("EUR")}

Responses ==
    { [WellFormed EXCEPT !.transport = x] : x \in {"ConnectionError", "Timeout"} }
    \cup { [WellFormed EXCEPT !.status = 500] }
    \cup { [WellFormed EXCEPT !.body = x] : x \in {"invalid", "array"} }
    \cup { [WellFormed EXCEPT !.chart = x] : x \in {"absent", "null"} }
    \cup { [WellFormed EXCEPT !.result = x] : x \in {"absent", "null", "empty"} }
    \cup { [WellFormed EXCEPT !.entry0 = "number"] }
    \cup { [WellFormed EXCEPT !.meta = x] : x \in {"absent", "null"} }
    \cup { Body(p, c, Absent) : p \in PriceValues, c \in PrevValues }
    \cup { Body(Num(202), Num(200), cur) : cur \in CurrencyValues }

NoResponse == [WellFormed EXCEPT !.transport = "none"]

(* ---------------------------------------------------------------------- *)
(* fetch_quote                                                             *)
(* ---------------------------------------------------------------------- *)
\* float(x) for a JSON scalar
Float(v) == IF v.t = "num" THEN [ok |-> TRUE, n |-> v.n] ELSE [ok |-> FALSE, n |-> 0]

fetch_quote(name, symbol, r) ==
    \* session.get(...)
    IF r.transport # "ok" THEN Raise(r.transport, "transport")
    \* response.raise_for_status()
    ELSE IF r.status \notin 200..299 THEN Raise("HTTPError", "status")
    \* payload = response.json()
    ELSE IF r.body = "invalid" THEN Raise("JSONDecodeError", "json")
    \* payload.get("chart", {})
    ELSE IF r.body # "object" THEN Raise("AttributeError", "payload.get")
    \* .get("result")
    ELSE IF r.chart = "null" THEN Raise("AttributeError", "chart.get")
    \* if not result
    ELSE IF r.chart = "absent" \/ r.result \in {"absent", "null", "empty"}
         THEN Raise("QuoteError", "No data returned")
    \* result[0].get("meta", {})
    ELSE IF r.entry0 # "object" THEN Raise("AttributeError", "result[0].get")
    \* meta.get("regularMarketPrice")
    ELSE IF r.meta = "null" THEN Raise("AttributeError", "meta.get")
    ELSE LET price      == IF r.meta = "absent" THEN Absent ELSE r.price
             prev_close == IF r.meta = "absent" THEN Absent ELSE r.prev_close
             cur        == IF r.meta = "absent" THEN Absent ELSE r.currency
             \* meta.get("currency") or "USD"
             currency   == IF cur.t = "str" /\ cur.s # "" THEN cur.s ELSE "USD"
         IN  \* if price is None or prev_close is None
             IF price.t \in {"absent", "null"} \/ prev_close.t \in {"absent", "null"}
             THEN Raise("QuoteError", "Missing price data")
             \* float(price), float(prev_close)
             ELSE IF ~Float(price).ok \/ ~Float(prev_close).ok
             THEN Raise("ValueError", "float")
             ELSE Return([name |-> name, symbol |-> symbol,
                          price |-> Float(price).n,
                          prev_close |-> Float(prev_close).n,
                          currency |-> currency])

(* ---------------------------------------------------------------------- *)
(* parse_args                                                              *)
(* ---------------------------------------------------------------------- *)
\* an option on the command line: not given, given with a value its type
\* accepts, or given with a value its type rejects
NotGiven == [given |-> FALSE, valid |-> TRUE, n |-> 0, d |-> 1]
Given(n, d) == [given |-> TRUE, valid |-> TRUE, n |-> n, d |-> d]
Rejected == [given |-> TRUE, valid |-> FALSE, n |-> 0, d |-> 1]

IntervalOptions == {NotGiven, Rejected, Given(-1, 1), Given(0, 1)}

ThresholdOptions == {NotGiven, Given(0, 1), Given(3, 2)}

Argvs == [interval : IntervalOptions, threshold : ThresholdOptions, once : BOOLEAN]

NoArgs == [interval |-> 0, threshold |-> [n |-> 0, d |-> 1], once |-> FALSE]

parse_args(argv) ==
    IF ~argv.interval.valid \/ ~argv.threshold.valid
    THEN [ok |-> FALSE, ns |-> NoArgs]
    ELSE [ok |-> TRUE,
          ns |-> [interval  |-> IF argv.interval.given THEN argv.interval.n
                                ELSE DefaultInterval,
                  threshold |-> IF argv.threshold.given
                                THEN [n |-> argv.threshold.n, d |-> argv.threshold.d]
                                ELSE DefaultThreshold,
                  once      |-> argv.once]]

(* ---------------------------------------------------------------------- *)
(* main                                                                    *)
(* ---------------------------------------------------------------------- *)
Init ==
    /\ pc = "START"
    /\ args = NoArgs
    /\ cycles = 0
    /\ idx = 1
    /\ inflight = FALSE
    /\ response = NoResponse
    /\ quotes = << >>
    /\ errors = << >>
    /\ out = << >>
    /\ requests = << >>
    /\ exitCode = -1
    /\ exc = ""

\* args = parse_args(argv); session = requests.Session(); first pass of
\* "while True: quotes = []; errors = []"
Start ==
    /\ pc = "START"
    /\ \E argv \in Argvs :
         LET p == parse_args(argv)
         IN  IF p.ok
             THEN /\ args' = p.ns
                  /\ pc' = "FETCHING"
                  /\ cycles' = 1
                  /\ UNCHANGED <<exitCode, exc>>
             ELSE /\ args' = args
                  /\ pc' = "EXITED"
                  /\ cycles' = cycles
                  /\ exitCode' = 2
                  /\ exc' = "SystemExit"
    /\ UNCHANGED <<idx, inflight, response, quotes, errors, out, requests>>

\* session.get issued without waiting for the previous fetch to finish
SendRequest_Concurrent ==
    /\ pc = "FETCHING"
    /\ idx <= NumTickers
    /\ inflight' = TRUE
    /\ requests' = Append(requests, DEFAULT_TICKERS[idx].symbol)
    /\ response' = NoResponse
    /\ UNCHANGED <<pc, args, cycles, idx, quotes, errors, out, exitCode, exc>>

\* the for loop reaches the next ticker and fetch_quote issues session.get
SendRequest ==
    /\ pc = "FETCHING"
    /\ ~inflight
    /\ idx <= NumTickers
    /\ inflight' = TRUE
    /\ requests' = Append(requests, DEFAULT_TICKERS[idx].symbol)
    /\ response' = NoResponse
    /\ UNCHANGED <<pc, args, cycles, idx, quotes, errors, out, exitCode, exc>>

\* session.get completes (or fails); the rest of fetch_quote runs inside the
\* try of main
Receive ==
    /\ pc = "FETCHING"
    /\ inflight
    /\ \E r \in Responses :
         LET t   == DEFAULT_TICKERS[idx]
             res == fetch_quote(t.name, t.symbol, r)
         IN  /\ response' = r
             /\ inflight' = FALSE
             /\ IF res.kind = "return"
                THEN /\ quotes' = Append(quotes, res.quote)
                     /\ idx' = idx + 1
                     /\ UNCHANGED <<errors, pc, exitCode, exc>>
                ELSE IF Caught(res.exc)
                THEN /\ errors' = Append(errors,
                                     [name |-> t.name, symbol |-> t.symbol,
                                      exc |-> res.exc, msg |-> res.msg])
                     /\ idx' = idx + 1
                     /\ UNCHANGED <<quotes, pc, exitCode, exc>>
                ELSE /\ pc' = "CRASHED"
                     /\ exitCode' = 1
                     /\ exc' = res.exc
                     /\ UNCHANGED <<quotes, errors, idx>>
    /\ UNCHANGED <<args, cycles, out, requests>>

\* the for loop over DEFAULT_TICKERS is exhausted
EndFetching ==
    /\ pc = "FETCHING"
    /\ ~inflight
    /\ idx > NumTickers
    /\ pc' = "REPORTING"
    /\ UNCHANGED <<args, cycles, idx, inflight, response, quotes, errors, out,
                   requests, exitCode, exc>>

RECURSIVE WarnLines_HeaderPerError(_)

NoDetail == [msg |-> "", price |-> 0, currency |-> "", change |-> 0,
             pct |-> [ok |-> TRUE, n |-> 0, d |-> 1]]

\* the header printed inside the loop over the errors
WarnLines_HeaderPerError(errs) ==
    IF errs = << >> THEN << >>
    ELSE << [tag |-> "WARN", name |-> "", symbol |-> "",
             detail |-> [NoDetail EXCEPT !.msg = "Failed to fetch some quotes:"]],
            [tag |-> "BULLET", name |-> errs[1].name, symbol |-> errs[1].symbol,
             detail |-> [NoDetail EXCEPT !.msg = errs[1].msg]] >>
         \o WarnLines_HeaderPerError(Tail(errs))

WarnLines(errs) ==
    IF errs = << >> THEN << >>
    ELSE << [tag |-> "WARN", name |-> "", symbol |-> "",
             detail |-> [NoDetail EXCEPT !.msg = "Failed to fetch some quotes:"]] >>
         \o [k \in 1..Len(errs) |->
               [tag |-> "BULLET", name |-> errs[k].name, symbol |-> errs[k].symbol,
                detail |-> [NoDetail EXCEPT !.msg = errs[k].msg]]]

QuoteLines(qs, threshold) ==
    [k \in 1..Len(qs) |->
       [tag |-> IF should_alert(qs[k], threshold) THEN "ALERT" ELSE "INFO",
        name |-> qs[k].name, symbol |-> qs[k].symbol,
        detail |-> format_quote(qs[k])]]

\* the warning block and the quote lines
Report ==
    /\ pc = "REPORTING"
    /\ IF \E k \in 1..Len(quotes) : ~change_percent(quotes[k]).ok
       THEN /\ out' = out \o WarnLines(errors)
            /\ pc' = "CRASHED"
            /\ exitCode' = 1
            /\ exc' = "ZeroDivisionError"
       ELSE /\ out' = out \o WarnLines(errors) \o QuoteLines(quotes, args.threshold)
            /\ pc' = "TRANSITION"
            /\ UNCHANGED <<exitCode, exc>>
    /\ UNCHANGED <<args, cycles, idx, inflight, response, quotes, errors, requests>>

\* if args.once: return 0
ExitOnce ==
    /\ pc = "TRANSITION"
    /\ args.once
    /\ pc' = "DONE"
    /\ exitCode' = 0
    /\ UNCHANGED <<args, cycles, idx, inflight, response, quotes, errors, out,
                   requests, exc>>

\* time.sleep(args.interval): a negative length raises ValueError
Sleep ==
    /\ pc = "TRANSITION"
    /\ ~args.once
    /\ IF args.interval < 0
       THEN /\ pc' = "CRASHED"
            /\ exitCode' = 1
            /\ exc' = "ValueError"
       ELSE /\ pc' = "SLEEPING"
            /\ UNCHANGED <<exitCode, exc>>
    /\ UNCHANGED <<args, cycles, idx, inflight, response, quotes, errors, out,
                   requests>>

\* time.sleep returns; while True: quotes = []; errors = []
Wake ==
    /\ pc = "SLEEPING"
    /\ cycles < MaxCycles
    /\ pc' = "FETCHING"
    /\ cycles' = cycles + 1
    /\ idx' = 1
    /\ quotes' = << >>
    /\ errors' = << >>
    /\ out' = << >>
    /\ requests' = << >>
    /\ response' = NoResponse
    /\ UNCHANGED <<args, inflight, exitCode, exc>>

Next ==
    \/ Start
    \/ SendRequest
    \/ Receive
    \/ EndFetching
    \/ Report
    \/ ExitOnce
    \/ Sleep
    \/ Wake

Spec == Init /\ [][Next]_vars

TypeOK ==
    /\ pc \in {"START", "EXITED", "FETCHING", "REPORTING", "TRANSITION",
               "SLEEPING", "DONE", "CRASHED"}
    /\ cycles \in 0..MaxCycles
    /\ idx \in 1..(NumTickers + 1)
    /\ inflight \in BOOLEAN
    /\ exitCode \in {-1, 0, 1, 2}
    /\ Len(quotes) + Len(errors) <= NumTickers


(* ---------------------------------------------------------------------- *)
(* Helpers for the properties                                              *)
(* ---------------------------------------------------------------------- *)
TickerIndex(sym) == CHOOSE k \in 1..NumTickers : DEFAULT_TICKERS[k].symbol = sym

AllSymbols == [k \in 1..NumTickers |-> DEFAULT_TICKERS[k].symbol]

Running == pc \notin {"START", "EXITED"}

\* the process died inside the FETCHING phase
CrashedInFetch == pc = "CRASHED" /\ idx <= NumTickers

\* the REPORTING phase of the current cycle has printed its lines
Reported ==
    \/ pc \in {"TRANSITION", "SLEEPING", "DONE"}
    \/ pc = "CRASHED" /\ idx > NumTickers

\* the outcome of the fetch that got response r, in the words of the spec
OutcomeKind(r) ==
    LET res == fetch_quote("", "", r)
    IN  IF res.kind = "return" THEN "success"
        ELSE IF res.exc \in {"ConnectionError", "Timeout", "HTTPError", "JSONDecodeError"}
        THEN "FetchError"
        ELSE IF res.exc = "QuoteError" THEN "QuoteError"
        ELSE "other"

FailedSymbols == {errors[k].symbol : k \in 1..Len(errors)}

(* ---------------------------------------------------------------------- *)
(* C1                                                                      *)
(* ---------------------------------------------------------------------- *)
C1_Isolated ==
    /\ (CrashedInFetch => OutcomeKind(response) = "other")
    /\ (pc = "FETCHING" /\ ~inflight /\ idx <= NumTickers /\ response # NoResponse
          => Len(requests) = idx - 1 /\ ENABLED SendRequest)
    /\ (pc = "REPORTING"
          => requests = AllSymbols /\ Len(quotes) + Len(errors) = NumTickers)

C1_Leaves ==
    (pc = "FETCHING" /\ pc' # "FETCHING")
       => \/ pc' = "REPORTING" /\ requests' = AllSymbols
          \/ pc' = "CRASHED" /\ OutcomeKind(response') = "other"

C2_AllFetchFailuresCaught ==
    (Running /\ ~inflight /\ response # NoResponse /\ OutcomeKind(response) # "success")
       => /\ pc # "CRASHED"
          /\ Len(errors) >= 1
          /\ (pc = "FETCHING" => errors[Len(errors)].symbol = DEFAULT_TICKERS[idx - 1].symbol)

(* ---------------------------------------------------------------------- *)
(* C3                                                                      *)
(* ---------------------------------------------------------------------- *)
IsWarnTag(l) == l.tag \in {"WARN", "BULLET"}

IsQuoteTag(l) == l.tag \in {"ALERT", "INFO"}

\* C3: once REPORTING has printed, every ticker has exactly one line (a
\* bullet iff its fetch failed, else an INFO/ALERT line), the WARN header is
\* there exactly once iff a fetch failed and comes first, every warning line
\* precedes every quote line, and bullets and quote lines are each in
\* symbol-table order.
C3_Report ==
    Reported =>
      /\ \A k \in 1..NumTickers :
           LET sym == DEFAULT_TICKERS[k].symbol
               own == {j \in 1..Len(out) : out[j].tag # "WARN" /\ out[j].symbol = sym}
           IN  /\ Cardinality(own) = 1
               /\ \A j \in own : (out[j].tag = "BULLET") <=> (sym \in FailedSymbols)
               /\ \A j \in own : out[j].tag \in {"BULLET", "ALERT", "INFO"}
      /\ Cardinality({j \in 1..Len(out) : out[j].tag = "WARN"})
           = IF errors # << >> THEN 1 ELSE 0
      /\ \A j \in 1..Len(out) : out[j].tag = "WARN" => j = 1
      /\ Len(out) = NumTickers + IF errors # << >> THEN 1 ELSE 0
      /\ \A i, j \in 1..Len(out) :
           i < j => ~(IsQuoteTag(out[i]) /\ IsWarnTag(out[j]))
      /\ \A i, j \in 1..Len(out) :
           (i < j /\ out[i].tag = "BULLET" /\ out[j].tag = "BULLET")
             => TickerIndex(out[i].symbol) < TickerIndex(out[j].symbol)
      /\ \A i, j \in 1..Len(out) :
           (i < j /\ IsQuoteTag(out[i]) /\ IsQuoteTag(out[j]))
             => TickerIndex(out[i].symbol) < TickerIndex(out[j].symbol)

\* the middle ticker got HTTP 500, the other two succeeded, and the lines
\* are printed
C3_Witness ==
    /\ pc = "TRANSITION"
    /\ Len(errors) = 1 /\ errors[1].symbol = "VOO" /\ errors[1].exc = "HTTPError"
    /\ Len(quotes) = 2
    /\ Len(out) = 4

(* ---------------------------------------------------------------------- *)
(* C4                                                                      *)
(* ---------------------------------------------------------------------- *)
\* C4: with --once the process runs exactly one cycle, never sleeps, and can
\* only end by returning 0, whatever the fetches produced.
C4_OnceExitsZero ==
    (Running /\ args.once)
       => /\ cycles = 1
          /\ pc # "SLEEPING"
          /\ pc # "CRASHED"
          /\ exitCode \in {-1, 0}
          /\ (pc = "DONE" <=> exitCode = 0)

(* ---------------------------------------------------------------------- *)
(* C5                                                                      *)
(* ---------------------------------------------------------------------- *)
\* abs(changePercent) >= threshold, from the raw price and previous close
AtLeastThreshold(q, th) ==
    IF q.prev_close = 0
    THEN 0 >= th.n
    ELSE Abs(q.price - q.prev_close) * 100 * th.d >= th.n * Abs(q.prev_close)

\* C5: the line printed for a quote is tagged ALERT exactly when
\* abs(changePercent) >= threshold (equality included) and INFO otherwise,
\* should_alert says the same, and with threshold 0 every quote whose price
\* differs from its previous close is tagged ALERT.
C5_AlertIffAtLeastThreshold ==
    Reported =>
      \A k \in 1..Len(quotes) :
        LET q    == quotes[k]
            line == out[Len(out) - Len(quotes) + k]
        IN  /\ line.symbol = q.symbol
            /\ line.tag \in {"ALERT", "INFO"}
            /\ (line.tag = "ALERT") <=> AtLeastThreshold(q, args.threshold)
            /\ should_alert(q, args.threshold) <=> AtLeastThreshold(q, args.threshold)
            /\ (args.threshold.n = 0 /\ q.price # q.prev_close) => line.tag = "ALERT"

\* threshold 1.5: a quote at exactly +1.5% is ALERT and one at +1% is INFO
C5_Witness ==
    /\ Reported
    /\ args.threshold = [n |-> 3, d |-> 2]
    /\ Len(quotes) = 3
    /\ quotes[1].price = 203 /\ quotes[1].prev_close = 200
    /\ quotes[2].price = 202 /\ quotes[2].prev_close = 200
    /\ out[1].tag = "ALERT"
    /\ out[2].tag = "INFO"

(* ---------------------------------------------------------------------- *)
(* C6                                                                      *)
(* ---------------------------------------------------------------------- *)
\* C6: change_percent of every fetched quote is defined (no
\* ZeroDivisionError), is exactly 0 when prev_close is 0, and otherwise
\* equals (price - prev_close) / prev_close * 100.
C6_ChangePercent ==
    /\ exc # "ZeroDivisionError"
    /\ \A k \in 1..Len(quotes) :
         LET q  == quotes[k]
             cp == change_percent(q)
         IN  /\ cp.ok
             /\ cp.d > 0
             /\ q.prev_close = 0 => cp.n = 0
             /\ q.prev_close # 0 => cp.n * q.prev_close = (q.price - q.prev_close) * 100 * cp.d

\* a quote with previous close 0 and price 200 was printed with 0 percent
C6_Witness ==
    /\ Reported
    /\ \E k \in 1..Len(quotes) :
         /\ quotes[k].prev_close = 0
         /\ quotes[k].price = 200
         /\ out[Len(out) - Len(quotes) + k].detail.pct.n = 0
         /\ out[Len(out) - Len(quotes) + k].detail.change = 200

(* ---------------------------------------------------------------------- *)
(* C7                                                                      *)
(* ---------------------------------------------------------------------- *)
\* C7: without --once the process stays in the FETCHING, REPORTING, SLEEPING
\* loop for ever: it never terminates of its own.
C7_LoopsForever ==
    (Running /\ ~args.once)
       => /\ pc \in {"FETCHING", "REPORTING", "TRANSITION", "SLEEPING"}
          /\ exitCode = -1

(* ---------------------------------------------------------------------- *)
(* C8                                                                      *)
(* ---------------------------------------------------------------------- *)
\* C8: every accepted command line gives an interval >= 0, so time.sleep
\* never gets a negative length.
C8_IntervalNonNegative ==
    Running => /\ args.interval >= 0
               /\ ~(pc = "CRASHED" /\ idx > NumTickers /\ exc = "ValueError")

(* ---------------------------------------------------------------------- *)
(* C9                                                                      *)
(* ---------------------------------------------------------------------- *)
IsJsonObject2xx(r) == r.transport = "ok" /\ r.status \in 200..299 /\ r.body = "object"

ResultPresent(r) == r.chart = "object" /\ r.result = "array"

Present(v) == v.t \in {"num", "str"}

PricesPresent(r) ==
    /\ r.entry0 = "object"
    /\ r.meta = "object"
    /\ Present(r.price)
    /\ Present(r.prev_close)

\* C9: for a 2xx response with a JSON object body, fetch_quote returns a
\* Quote iff the result array is non-empty and both price fields are present
\* in its first entry's meta; otherwise it raises the "No data returned"
\* QuoteError (result absent or empty) or the "Missing price data"
\* QuoteError (a price field absent); a missing currency gives "USD".
C9_FetchQuoteContract ==
    (response # NoResponse /\ IsJsonObject2xx(response)) =>
      LET res == fetch_quote("n", "s", response)
      IN  /\ (res.kind = "return") <=> (ResultPresent(response) /\ PricesPresent(response))
          /\ ~ResultPresent(response)
               => res.kind = "raise" /\ res.exc = "QuoteError" /\ res.msg = "No data returned"
          /\ (ResultPresent(response) /\ ~PricesPresent(response))
               => res.kind = "raise" /\ res.exc = "QuoteError" /\ res.msg = "Missing price data"
          /\ (res.kind = "return" /\ response.currency.t # "str")
               => res.quote.currency = "USD"

(* ---------------------------------------------------------------------- *)
(* C10                                                                     *)
(* ---------------------------------------------------------------------- *)
C10_Sequential ==
    /\ Len(requests) <= NumTickers
    /\ \A k \in 1..Len(requests) : requests[k] = DEFAULT_TICKERS[k].symbol
    /\ Len(requests) = Len(quotes) + Len(errors)
                         + (IF CrashedInFetch THEN 1 ELSE 0)
                         + (IF inflight THEN 1 ELSE 0)
    /\ (pc \in {"REPORTING", "TRANSITION", "SLEEPING", "DONE"} => requests = AllSymbols)

C10_OnlyWhenIdle ==
    requests' # requests
       => \/ /\ pc = "FETCHING" /\ pc' = "FETCHING" /\ ~inflight
             /\ Len(requests') = Len(requests) + 1
          \/ pc = "SLEEPING" /\ pc' = "FETCHING" /\ requests' = << >>

\* C10: the requests of a cycle are the tickers in table order, each at most
\* once (so none is retried), a request is issued only while FETCHING and
\* only when the previous one has completed or failed, and a cycle that gets
\* to REPORTING has issued exactly one request per ticker.
C10_OneRequestPerSymbol == []C10_Sequential /\ [][C10_OnlyWhenIdle]_vars

\* all three fetches failed and the cycle still issued exactly three requests
C10_Witness ==
    /\ pc = "REPORTING"
    /\ Len(errors) = NumTickers
    /\ requests = AllSymbols

====
